---- MODULE Spec2Model ----
(***************************************************************************)
(* Restro Keyboard: the low-level keyboard hook (keyboard_hook_proc), the  *)
(* phonetic engine (process_keyboard_input), the input synthesizer         *)
(* (simulate_backspace, simulate_unicode_input) and the settings panel's   *)
(* writes to SETTINGS, as a state machine.                                 *)
(*                                                                         *)
(* Characters are Unicode codepoints (integers); a string is a sequence of *)
(* codepoints.  All characters that reach BUFFER are below 128, so a byte  *)
(* index and a character index coincide, as in the Rust code.              *)
(***************************************************************************)
EXTENDS Integers, Sequences, FiniteSets, TLC

VARIABLES
    SETTINGS,        \* the fields of KeyboardSettings the hook reads
    CTRL_PRESSED,    \* the AtomicBool
    BUFFER,          \* the String behind the BUFFER mutex
    pc,              \* position of the hook callback: "idle", or "toggle"
                     \* between drop(settings) and the second SETTINGS.lock()
    overflow_checks, \* the build: TRUE = arithmetic overflow panics (dev
                     \* profile), FALSE = it wraps (release profile)
    panicked,        \* the hook panicked inside the extern "system" callback
    ev,              \* the event of the latest hook invocation
    ret,             \* what that invocation returned
    sent,            \* the INPUT records it passed to SendInput, in order
    actor,           \* who took the latest step
    ctrlHeld,        \* history: a genuine Ctrl key-down with no genuine Ctrl
                     \* key-up since
    typed,           \* history: characters pushed to BUFFER since it was last
                     \* cleared
    streak,          \* history: consecutive engine keystrokes, the first on an
                     \* empty BUFFER, that matched no rule
    before,          \* history: BUFFER when the latest hook invocation began
    locks,           \* history: the mutexes whose guards were alive while the
                     \* latest invocation called the synthesizer
    returned,        \* the value returned by the latest call of
                     \* process_keyboard_input made on its own (EngineSpec)
    owner,           \* LockSpec: who holds each mutex: "none", "hook", "ui"
    plan,            \* LockSpec: the lock operations the running callback has
                     \* still to perform, innermost invocation first
    hpath,           \* LockSpec: the return point of the running or latest
                     \* outermost callback
    upc,             \* LockSpec: the UI's position: "idle", "want", "held"
    reentries        \* LockSpec: injected events delivered during the
                     \* synthesis of the running callback

vars == <<SETTINGS, CTRL_PRESSED, BUFFER, pc, overflow_checks, panicked,
          ev, ret, sent, actor, ctrlHeld, typed, streak, before, locks,
          returned, owner, plan, hpath, upc, reentries>>

\* the variables of the lock discipline
lockvars == <<owner, plan, hpath, upc, reentries>>

----------------------------------------------------------------------------
(* Win32 constants used by the hook *)

VK_BACK == 8
VK_CONTROL == 17
VK_SPACE == 32

DownMsgs == {"WM_KEYDOWN", "WM_SYSKEYDOWN"}
UpMsgs == {"WM_KEYUP", "WM_SYSKEYUP"}

----------------------------------------------------------------------------
(* Bounds of the model *)

\* Letter keys pressed: A E I O U (the five vowel keys; "ou" is a rule), K (a
\* consonant; "kk" is a rule), Q (a letter no rule key contains).
LetterVks == {65, 69, 73, 79, 85, 75, 81}
\* Digit keys pressed: 1.
DigitVks == {49}
\* Other keys: Backspace, Ctrl, Space and Enter.
OtherVks == {VK_BACK, VK_CONTROL, VK_SPACE, 13}
AllVks == LetterVks \cup DigitVks \cup OtherVks

\* typed counts up to this many characters and then stays there.  A replacement
\* erases at most 3 characters, so comparing an erase count with typed + 1 is
\* exact from MaxTyped = 3 on.
MaxTyped == 3
\* streak is followed up to this many keystrokes
MaxStreak == 7

\* Events delivered to the hook: every key down, genuine; key-ups of Ctrl and K;
\* Alt-modified (SYS) forms; injected events, among them the synthesizer's own
\* Backspace; and a notification with code < 0.
Events ==
    [code : {0}, vk : AllVks, msg : {"WM_KEYDOWN"}, injected : {FALSE}]
    \cup [code : {0}, vk : {VK_CONTROL, 75}, msg : {"WM_KEYUP"}, injected : {FALSE}]
    \cup [code : {0}, vk : {VK_SPACE}, msg : {"WM_SYSKEYDOWN"}, injected : {FALSE}]
    \cup [code : {0}, vk : {VK_CONTROL}, msg : {"WM_SYSKEYUP"}, injected : {FALSE}]
    \cup [code : {0}, vk : {VK_BACK, VK_CONTROL, VK_SPACE, 75},
          msg : {"WM_KEYDOWN"}, injected : {TRUE}]
    \cup [code : {0}, vk : {VK_CONTROL}, msg : {"WM_KEYUP"}, injected : {TRUE}]
    \cup [code : {-1}, vk : {VK_SPACE}, msg : {"WM_KEYDOWN"}, injected : {FALSE}]

----------------------------------------------------------------------------
(* The rule table *)

\* the variants of enum BanglaChar
Vowel(c) == [cat |-> "Vowel", glyph |-> c]
Consonant(c) == [cat |-> "Consonant", glyph |-> c]
VowelSign(c) == [cat |-> "VowelSign", glyph |-> c]
Number(c) == [cat |-> "Number", glyph |-> c]
Special(c) == [cat |-> "Special", glyph |-> c]

\* PHONETIC_MAP.get(s): the entries in the order of their insert calls, each
\* key and glyph as its codepoints (the key is repeated on the right); cat
\* "None" when s is no key
PHONETIC_MAP(s) ==
    CASE s = <<97>> -> Vowel(<<2437>>)                           \* a
      [] s = <<97, 97>> -> Vowel(<<2438>>)                       \* aa
      [] s = <<65>> -> Vowel(<<2438>>)                           \* A
      [] s = <<105>> -> Vowel(<<2439>>)                          \* i
      [] s = <<105, 105>> -> Vowel(<<2440>>)                     \* ii
      [] s = <<73>> -> Vowel(<<2440>>)                           \* I
      [] s = <<117>> -> Vowel(<<2441>>)                          \* u
      [] s = <<117, 117>> -> Vowel(<<2442>>)                     \* uu
      [] s = <<85>> -> Vowel(<<2442>>)                           \* U
      [] s = <<114, 114, 105>> -> Vowel(<<2443>>)                \* rri
      [] s = <<101>> -> Vowel(<<2447>>)                          \* e
      [] s = <<69>> -> VowelSign(<<2503>>)                       \* E
      [] s = <<111, 105>> -> Vowel(<<2448>>)                     \* oi
      [] s = <<79, 73>> -> Vowel(<<2448>>)                       \* OI
      [] s = <<111>> -> Vowel(<<2451>>)                          \* o
      [] s = <<79>> -> VowelSign(<<2507>>)                       \* O
      [] s = <<111, 117>> -> Vowel(<<2452>>)                     \* ou
      [] s = <<79, 85>> -> Vowel(<<2452>>)                       \* OU
      [] s = <<107>> -> Consonant(<<2453>>)                      \* k
      [] s = <<107, 104>> -> Consonant(<<2454>>)                 \* kh
      [] s = <<103>> -> Consonant(<<2455>>)                      \* g
      [] s = <<103, 104>> -> Consonant(<<2456>>)                 \* gh
      [] s = <<110, 103>> -> Consonant(<<2457>>)                 \* ng
      [] s = <<99>> -> Consonant(<<2458>>)                       \* c
      [] s = <<99, 104>> -> Consonant(<<2459>>)                  \* ch
      [] s = <<106>> -> Consonant(<<2460>>)                      \* j
      [] s = <<106, 104>> -> Consonant(<<2461>>)                 \* jh
      [] s = <<110, 121>> -> Consonant(<<2462>>)                 \* ny
      [] s = <<116>> -> Consonant(<<2463>>)                      \* t
      [] s = <<116, 104>> -> Consonant(<<2464>>)                 \* th
      [] s = <<100>> -> Consonant(<<2465>>)                      \* d
      [] s = <<100, 104>> -> Consonant(<<2466>>)                 \* dh
      [] s = <<110>> -> Consonant(<<2472>>)                      \* n
      [] s = <<112>> -> Consonant(<<2474>>)                      \* p
      [] s = <<112, 104>> -> Consonant(<<2475>>)                 \* ph
      [] s = <<102>> -> Consonant(<<2475>>)                      \* f
      [] s = <<98>> -> Consonant(<<2476>>)                       \* b
      [] s = <<98, 104>> -> Consonant(<<2477>>)                  \* bh
      [] s = <<118>> -> Consonant(<<2477>>)                      \* v
      [] s = <<109>> -> Consonant(<<2478>>)                      \* m
      [] s = <<122>> -> Consonant(<<2479>>)                      \* z
      [] s = <<114>> -> Consonant(<<2480>>)                      \* r
      [] s = <<108>> -> Consonant(<<2482>>)                      \* l
      [] s = <<115, 104>> -> Consonant(<<2486>>)                 \* sh
      [] s = <<115>> -> Consonant(<<2488>>)                      \* s
      [] s = <<104>> -> Consonant(<<2489>>)                      \* h
      [] s = <<121>> -> Consonant(<<2479, 2492>>)                \* y
      [] s = <<107, 107>> -> Consonant(<<2453, 2509, 2453>>)     \* kk
      [] s = <<116, 116>> -> Consonant(<<2468, 2509, 2468>>)     \* tt
      [] s = <<110, 110>> -> Consonant(<<2472, 2509, 2472>>)     \* nn
      [] s = <<107, 97, 114, 95, 97, 97>> -> VowelSign(<<2494>>) \* kar_aa
      [] s = <<107, 97, 114, 95, 105>> -> VowelSign(<<2495>>)    \* kar_i
      [] s = <<107, 97, 114, 95, 105, 105>> -> VowelSign(<<2496>>) \* kar_ii
      [] s = <<107, 97, 114, 95, 117>> -> VowelSign(<<2497>>)    \* kar_u
      [] s = <<107, 97, 114, 95, 117, 117>> -> VowelSign(<<2498>>) \* kar_uu
      [] s = <<107, 97, 114, 95, 101>> -> VowelSign(<<2503>>)    \* kar_e
      [] s = <<107, 97, 114, 95, 111, 105>> -> VowelSign(<<2504>>) \* kar_oi
      [] s = <<107, 97, 114, 95, 111>> -> VowelSign(<<2507>>)    \* kar_o
      [] s = <<107, 97, 114, 95, 111, 117>> -> VowelSign(<<2508>>) \* kar_ou
      [] s = <<48>> -> Number(<<2534>>)                          \* 0
      [] s = <<49>> -> Number(<<2535>>)                          \* 1
      [] s = <<50>> -> Number(<<2536>>)                          \* 2
      [] s = <<51>> -> Number(<<2537>>)                          \* 3
      [] s = <<52>> -> Number(<<2538>>)                          \* 4
      [] s = <<53>> -> Number(<<2539>>)                          \* 5
      [] s = <<54>> -> Number(<<2540>>)                          \* 6
      [] s = <<55>> -> Number(<<2541>>)                          \* 7
      [] s = <<56>> -> Number(<<2542>>)                          \* 8
      [] s = <<57>> -> Number(<<2543>>)                          \* 9
      [] s = <<99, 104, 97, 110, 100, 114, 97, 98, 105, 110, 100, 117>> -> Special(<<2433>>) \* chandrabindu
      [] s = <<97, 110, 117, 115, 118, 97, 114>> -> Special(<<2434>>) \* anusvar
      [] s = <<98, 105, 115, 97, 114, 103, 97>> -> Special(<<2435>>) \* bisarga
      [] s = <<104, 97, 115, 97, 110, 116>> -> Special(<<2509>>) \* hasant
      [] s = <<100, 97, 114, 105>> -> Special(<<2404>>)          \* dari
      [] OTHER -> [cat |-> "None", glyph |-> <<>>]

\* mutant: single-character keys are not looked up
HasRuleLongOnly(s) == Len(s) >= 2 /\ PHONETIC_MAP(s).cat # "None"

\* PHONETIC_MAP.get(s) is Some
HasRule(s) == PHONETIC_MAP(s).cat # "None"

\* matches!(PHONETIC_MAP.get(ch.to_string()), Some(Consonant(_)))
IsConsonantChar(ch) == PHONETIC_MAP(<<ch>>).cat = "Consonant"

----------------------------------------------------------------------------
(* process_keyboard_input *)

\* mutant: the overflow test is off by one
OverflowsLate(buffer_str) == Len(buffer_str) > 6

\* if buffer_str.len() > 5
Overflows(buffer_str) == Len(buffer_str) > 5

\* the match on substr in the "vowel signs after consonants" case:
\* [some |-> FALSE] is None
VowelAfterConsonant(substr) ==
    CASE substr = <<97>> -> [some |-> TRUE, output |-> <<>>]
      [] substr = <<105>> -> [some |-> TRUE, output |-> <<2495>>]
      [] substr = <<101>> -> [some |-> TRUE, output |-> <<2503>>]
      [] substr = <<117>> -> [some |-> TRUE, output |-> <<2497>>]
      [] substr = <<111>> -> [some |-> TRUE, output |-> <<2507>>]
      [] OTHER -> [some |-> FALSE, output |-> <<>>]

\* the match on *c for a Vowel preceded by a consonant
DependentSign(c) ==
    CASE c = <<2437>> -> <<>>
      [] c = <<2438>> -> <<2494>>
      [] c = <<2439>> -> <<2495>>
      [] c = <<2440>> -> <<2496>>
      [] c = <<2441>> -> <<2497>>
      [] c = <<2442>> -> <<2498>>
      [] c = <<2447>> -> <<2503>>
      [] c = <<2448>> -> <<2504>>
      [] c = <<2451>> -> <<2507>>
      [] c = <<2452>> -> <<2508>>
      [] OTHER -> c

\* buffer_str.len() - 2, the argument of nth() in the length-1 special case,
\* as a mathematical integer
SpecialCaseIndex(buffer_str) == Len(buffer_str) - 2

\* buffer_str.len() - len - 1, the argument of nth() after an exact match,
\* as a mathematical integer
GeneralIndex(buffer_str, len) == Len(buffer_str) - len - 1

\* let prev_was_consonant = if len < buffer_str.len() { ...nth(len() - len - 1)... }
PrevWasConsonant(buffer_str, len) ==
    IF len < Len(buffer_str)
    THEN IsConsonantChar(buffer_str[Len(buffer_str) - len])
    ELSE FALSE

\* let output = match bangla_char { ... }
MatchOutput(bangla_char, prev_was_consonant) ==
    CASE bangla_char.cat = "Consonant" ->
            IF prev_was_consonant THEN <<2509>> \o bangla_char.glyph
            ELSE bangla_char.glyph
      [] bangla_char.cat = "VowelSign" -> bangla_char.glyph
      [] bangla_char.cat = "Vowel" ->
            IF prev_was_consonant THEN DependentSign(bangla_char.glyph)
            ELSE bangla_char.glyph
      [] OTHER -> bangla_char.glyph

\* mutant: the erase count is one more than the candidate length
MatchedOneMore(output, len) ==
    [kind |-> "Some", output |-> output, backspaces |-> len + 1, buffer |-> <<>>]

\* Some((output, len)) after buffer.clear()
Matched(output, len) ==
    [kind |-> "Some", output |-> output, backspaces |-> len, buffer |-> <<>>]

\* One iteration of "for len in (1..=min(buffer_str.len(), 3)).rev()": kind
\* "Continue" when the iteration returns nothing and the loop goes on.
\* buffer_str.len() - 2 is a usize subtraction: when it is negative the dev
\* profile panics, and the release profile wraps it to 2^64 - 1, an index
\* chars().nth() answers with None.
Candidate(buffer_str, len, checks) ==
    LET n == Len(buffer_str)
        substr == SubSeq(buffer_str, n - len + 1, n)
        idx == SpecialCaseIndex(buffer_str)
        prevIsConsonant ==
            len = 1 /\ idx >= 0 /\ IsConsonantChar(buffer_str[idx + 1])
        result == IF prevIsConsonant THEN VowelAfterConsonant(substr)
                  ELSE [some |-> FALSE, output |-> <<>>]
    IN  IF len = 1 /\ idx < 0 /\ checks
        THEN [kind |-> "Panic", output |-> <<>>, backspaces |-> 0,
              buffer |-> buffer_str]
        ELSE IF result.some
        THEN Matched(result.output, 1)
        ELSE IF HasRule(substr)
        THEN Matched(MatchOutput(PHONETIC_MAP(substr),
                                 PrevWasConsonant(buffer_str, len)), len)
        ELSE [kind |-> "Continue", output |-> <<>>, backspaces |-> 0,
              buffer |-> buffer_str]

Min(a, b) == IF a < b THEN a ELSE b

\* the loop: the first iteration, from the longest candidate down, that returns
FirstReturn(top, c3, c2, c1, buffer_str) ==
    IF top >= 3 /\ c3.kind # "Continue" THEN c3
    ELSE IF top >= 2 /\ c2.kind # "Continue" THEN c2
    ELSE IF top >= 1 /\ c1.kind # "Continue" THEN c1
    ELSE [kind |-> "None", output |-> <<>>, backspaces |-> 0, buffer |-> buffer_str]

\* buffer after buffer.push_str(key)
Pushed(key, buffer) == buffer \o key

\* fn process_keyboard_input(key, buffer) -> Option<(String, usize)>, given
\* buffer_str after the push; the field buffer is *buffer after the call
process_keyboard_input(buffer_str, checks) ==
    IF Overflows(buffer_str)
    THEN [kind |-> "None", output |-> <<>>, backspaces |-> 0, buffer |-> <<>>]
    ELSE FirstReturn(Min(Len(buffer_str), 3),
                     Candidate(buffer_str, 3, checks),
                     Candidate(buffer_str, 2, checks),
                     Candidate(buffer_str, 1, checks),
                     buffer_str)

----------------------------------------------------------------------------
(* The input synthesizer: the INPUT records handed to SendInput *)

\* fn simulate_backspace()
simulate_backspace ==
    << [wVk |-> VK_BACK, wScan |-> 0, dwFlags |-> {}],
       [wVk |-> VK_BACK, wScan |-> 0, dwFlags |-> {"KEYEVENTF_KEYUP"}] >>

\* fn simulate_unicode_input(text): one press and one release per char
simulate_unicode_input(text) ==
    [i \in 1..(2 * Len(text)) |->
        [wVk |-> 0, wScan |-> text[(i + 1) \div 2] % 65536,
         dwFlags |-> IF i % 2 = 1 THEN {"KEYEVENTF_UNICODE"}
                     ELSE {"KEYEVENTF_UNICODE", "KEYEVENTF_KEYUP"}]]

\* mutant: the loop runs over 0..=backspaces
BackspacesInclusive(backspaces) ==
    [i \in 1..(2 * (backspaces + 1)) |-> simulate_backspace[2 - (i % 2)]]

\* for _ in 0..backspaces { simulate_backspace(); sleep }
Backspaces(backspaces) ==
    [i \in 1..(2 * backspaces) |-> simulate_backspace[2 - (i % 2)]]

\* mutant: the text is injected before the backspaces
ReplaceTextFirst(output, backspaces) ==
    (IF output # <<>> THEN simulate_unicode_input(output) ELSE <<>>)
    \o Backspaces(backspaces)

\* the replacement: the backspaces, then the text if it is not empty
Replace(output, backspaces) ==
    Backspaces(backspaces)
    \o (IF output # <<>> THEN simulate_unicode_input(output) ELSE <<>>)

----------------------------------------------------------------------------
(* keyboard_hook_proc *)

\* mutant: the test reads a flag bit that injected events do not set
IsInjectedWrongBit(e) == FALSE

\* (flags & KBDLLHOOKSTRUCT_FLAGS(0x10)).0 != 0
IsInjected(e) == e.injected

\* let key = if A-Z { lowercase letter } else if 0-9 { (vk_code - 0x30) as u8
\* as char } else { None }; None is the empty sequence
KeyOf(vk_code) ==
    IF vk_code >= 65 /\ vk_code <= 90 THEN << (vk_code - 65 + 97) % 256 >>
    ELSE IF vk_code >= 48 /\ vk_code <= 57 THEN << (vk_code - 48) % 256 >>
    ELSE <<>>

\* mutant: the hotkey test forgets CTRL_PRESSED
HotkeyFiresWithoutCtrl(settings, vk_code, ctrl) ==
    settings.enabled /\ settings.hotkey_enabled /\ vk_code = VK_SPACE

\* if settings.hotkey_enabled { if vk_code == VK_SPACE && CTRL_PRESSED.load() {
\* (inside "if settings.enabled")
HotkeyFires(settings, vk_code, ctrl) ==
    settings.enabled /\ settings.hotkey_enabled /\ vk_code = VK_SPACE /\ ctrl

\* mutant: the engine condition forgets the language
EngineOnAnyLanguage(settings) == settings.enabled /\ settings.intercept_all

\* if settings.current_language == "Bangla" && settings.intercept_all
\* (inside "if settings.enabled")
EngineOn(settings) ==
    settings.enabled /\ settings.current_language = "Bangla" /\ settings.intercept_all

\* if buffer.is_empty() && matches!(key, "a" | "e" | "i" | "o" | "u"), and the
\* rule of key is a Vowel
IsDirectVowel(key, buffer) ==
    /\ buffer = <<>>
    /\ key \in {<<97>>, <<101>>, <<105>>, <<111>>, <<117>>}
    /\ HasRule(key)
    /\ PHONETIC_MAP(key).cat = "Vowel"

\* mutant: the empty-buffer vowel erases one character first
DirectVowelErasing(key) == Replace(PHONETIC_MAP(key).glyph, 1)

\* the empty-buffer vowel: simulate_unicode_input(c); return LRESULT(1)
DirectVowel(key) == simulate_unicode_input(PHONETIC_MAP(key).glyph)

\* mutant: Backspace clears the buffer
PopAll(buffer) == <<>>

\* buffer.pop() when the buffer is not empty
Pop(buffer) == IF buffer # <<>> THEN SubSeq(buffer, 1, Len(buffer) - 1) ELSE buffer

\* CTRL_PRESSED after the WM_KEYDOWN | WM_SYSKEYDOWN arm's store
CtrlAfterDown(vk_code, ctrl) == IF vk_code = VK_CONTROL THEN TRUE ELSE ctrl

\* CTRL_PRESSED after the WM_KEYUP | WM_SYSKEYUP arm's store
CtrlAfterUp(vk_code, ctrl) == IF vk_code = VK_CONTROL THEN FALSE ELSE ctrl

\* What one invocation does, up to its return or, on the hotkey path, up to
\* drop(settings): ret is "propagate" (CallNextHookEx), "swallow" (LRESULT(1)),
\* "panic", or "pending" (the hotkey was recognised and SETTINGS released);
\* path names the return point.
Outcome(retv, sentv, ctrl, buffer, path) ==
    [ret |-> retv, sent |-> sentv, ctrl |-> ctrl, buffer |-> buffer, path |-> path]

\* if let Some((output, backspaces)) = process_keyboard_input(&key, &mut buffer)
\* { backspaces, text, return LRESULT(1) }, else fall through to CallNextHookEx
AfterEngine(r, ctrl, overflowed) ==
    CASE r.kind = "Panic" -> Outcome("panic", <<>>, ctrl, r.buffer, "panic")
      [] r.kind = "Some" ->
            Outcome("swallow", Replace(r.output, r.backspaces), ctrl, r.buffer, "match")
      [] OTHER ->
            Outcome("propagate", <<>>, ctrl, r.buffer,
                    IF overflowed THEN "overflow" ELSE "miss")

\* the WM_KEYDOWN | WM_SYSKEYDOWN arm, after the CTRL_PRESSED store
KeyDown(vk_code, key, settings, ctrl, buffer, checks) ==
    IF vk_code = VK_BACK
    THEN Outcome("propagate", <<>>, ctrl, Pop(buffer), "backspace")
    ELSE IF HotkeyFires(settings, vk_code, ctrl)
    THEN Outcome("pending", <<>>, ctrl, buffer, "hotkey")
    ELSE IF EngineOn(settings) /\ key # <<>>
    THEN IF IsDirectVowel(key, buffer)
         THEN Outcome("swallow", DirectVowel(key), ctrl, buffer, "direct")
         ELSE AfterEngine(process_keyboard_input(Pushed(key, buffer), checks),
                          ctrl, Overflows(Pushed(key, buffer)))
    ELSE Outcome("propagate", <<>>, ctrl, buffer, "down")

keyboard_hook_proc(e, settings, ctrl, buffer, checks) ==
    IF e.code < 0 THEN Outcome("propagate", <<>>, ctrl, buffer, "code")
    ELSE IF IsInjected(e) THEN Outcome("propagate", <<>>, ctrl, buffer, "injected")
    ELSE IF e.msg \in DownMsgs
    THEN KeyDown(e.vk, KeyOf(e.vk), settings, CtrlAfterDown(e.vk, ctrl), buffer, checks)
    ELSE IF e.msg \in UpMsgs
    THEN Outcome("propagate", <<>>, CtrlAfterUp(e.vk, ctrl), buffer, "up")
    ELSE Outcome("propagate", <<>>, ctrl, buffer, "other")

\* The guards alive at the synthesis calls of the path taken.  `settings`
\* (line 504) is never dropped on the engine paths and lives to the return;
\* `buffer` (line 535) lives to the return on the empty-buffer vowel path and is
\* dropped before the backspaces on the match path.  The other paths call no
\* synthesis routine.
LocksAtSynthesis(path) ==
    CASE path = "direct" -> {"SETTINGS", "BUFFER"}
      [] path = "match" -> {"SETTINGS"}
      [] OTHER -> {}

----------------------------------------------------------------------------
(* History variables *)

Genuine(e) == e.code >= 0 /\ ~e.injected

CtrlHeldAfter(e, held) ==
    IF Genuine(e) /\ e.vk = VK_CONTROL /\ e.msg \in DownMsgs THEN TRUE
    ELSE IF Genuine(e) /\ e.vk = VK_CONTROL /\ e.msg \in UpMsgs THEN FALSE
    ELSE held

TypedAfter(path, n) ==
    IF path \in {"overflow", "match"} THEN 0
    ELSE IF path \in {"miss", "panic"} THEN Min(n + 1, MaxTyped)
    ELSE n

\* key-ups, injected events and code < 0 leave a run of keystrokes unbroken
StreakAfter(path, n, buffer) ==
    IF path \in {"miss", "overflow", "panic"}
    THEN IF n > 0 /\ n < MaxStreak THEN n + 1
         ELSE IF buffer = <<>> THEN 1 ELSE 0
    ELSE IF path \in {"code", "injected", "up", "other"} THEN n
    ELSE 0

----------------------------------------------------------------------------
(* The state machine *)

Mutexes == {"SETTINGS", "BUFFER"}

LockVarsInit ==
    /\ owner = [m \in Mutexes |-> "none"]
    /\ plan = <<>>
    /\ hpath = "none"
    /\ upc = "idle"
    /\ reentries = 0

NotCalled == [kind |-> "NotCalled", output |-> <<>>, backspaces |-> 0]

NoEvent == [code |-> 0, vk |-> 0, msg |-> "none", injected |-> FALSE]

Init ==
    /\ SETTINGS = [enabled |-> TRUE, current_language |-> "Bangla",
                   hotkey_enabled |-> TRUE, intercept_all |-> TRUE]
    /\ CTRL_PRESSED = FALSE
    /\ BUFFER = <<>>
    /\ pc = "idle"
    /\ overflow_checks \in BOOLEAN
    /\ panicked = FALSE
    /\ ev = NoEvent
    /\ ret = "none"
    /\ sent = <<>>
    /\ actor = "init"
    /\ ctrlHeld = FALSE
    /\ typed = 0
    /\ streak = 0
    /\ before = <<>>
    /\ locks = {}
    /\ returned = NotCalled
    /\ LockVarsInit

\* The OS delivers event e to the hook; the callback runs to its return, or to
\* the point where the hotkey path has released SETTINGS.
KeyboardHook(e) ==
    /\ pc = "idle"
    /\ ~panicked
    /\ \E o \in {keyboard_hook_proc(e, SETTINGS, CTRL_PRESSED, BUFFER, overflow_checks)} :
           /\ CTRL_PRESSED' = o.ctrl
           /\ BUFFER' = o.buffer
           /\ pc' = IF o.ret = "pending" THEN "toggle" ELSE "idle"
           /\ panicked' = (o.ret = "panic")
           /\ ret' = o.ret
           /\ sent' = o.sent
           /\ typed' = TypedAfter(o.path, typed)
           /\ streak' = StreakAfter(o.path, streak, BUFFER)
           /\ locks' = LocksAtSynthesis(o.path)
    /\ ev' = e
    /\ actor' = "hook"
    /\ ctrlHeld' = CtrlHeldAfter(e, ctrlHeld)
    /\ before' = BUFFER
    /\ UNCHANGED <<SETTINGS, overflow_checks, returned>>
    /\ UNCHANGED lockvars

\* settings.current_language after the toggle
Toggled(lang) == IF lang = "Bangla" THEN "English" ELSE "Bangla"

\* let mut settings = SETTINGS.lock().unwrap(); ...; return LRESULT(1)
HotkeyToggle ==
    /\ pc = "toggle"
    /\ SETTINGS' = [SETTINGS EXCEPT !.current_language = Toggled(@)]
    /\ pc' = "idle"
    /\ ret' = "swallow"
    /\ actor' = "hook"
    /\ UNCHANGED <<CTRL_PRESSED, BUFFER, overflow_checks, panicked, ev, sent,
                   ctrlHeld, typed, streak, before, locks, returned>>
    /\ UNCHANGED lockvars

\* mutant: update() runs between drop(settings) (line 509) and the second
\* SETTINGS.lock() (line 510)
UiWriteAnyTime(new) ==
    /\ ~panicked
    /\ SETTINGS' = new
    /\ actor' = "ui"
    /\ streak' = 0
    /\ UNCHANGED <<CTRL_PRESSED, BUFFER, pc, overflow_checks, panicked, ev, ret,
                   sent, ctrlHeld, typed, before, locks, returned>>
    /\ UNCHANGED lockvars

\* A write of the settings window, made under the SETTINGS lock.  The hook was
\* installed by main (SetWindowsHookExA, line 587) on the thread that then runs
\* the UI (eframe::run_native, lines 652-653), and a low-level hook is called on
\* the thread that installed it: update() and the callback never overlap.
UiWrite(new) ==
    /\ pc = "idle"
    /\ ~panicked
    /\ SETTINGS' = new
    /\ actor' = "ui"
    /\ streak' = 0
    /\ UNCHANGED <<CTRL_PRESSED, BUFFER, pc, overflow_checks, panicked, ev, ret,
                   sent, ctrlHeld, typed, before, locks, returned>>
    /\ UNCHANGED lockvars

\* the "Enable keyboard" checkbox: the widget flips the flag on a click and
\* the handler flips it again
UiClickEnabled ==
    UiWrite([SETTINGS EXCEPT !.enabled = ~(~@)])

\* the Bangla radio button: radio_value stores "Bangla", the handler enables
UiSelectBangla ==
    UiWrite([SETTINGS EXCEPT !.current_language = "Bangla", !.enabled = TRUE])

\* the English radio button: radio_value stores "English", the handler disables
UiSelectEnglish ==
    UiWrite([SETTINGS EXCEPT !.current_language = "English", !.enabled = FALSE])

\* the "Enable Ctrl+Space shortcut" checkbox
UiToggleHotkey ==
    UiWrite([SETTINGS EXCEPT !.hotkey_enabled = ~@])

Next ==
    \/ \E e \in Events : KeyboardHook(e)
    \/ HotkeyToggle
    \/ UiClickEnabled
    \/ UiSelectBangla
    \/ UiSelectEnglish
    \/ UiToggleHotkey

Spec == Init /\ [][Next]_vars

----------------------------------------------------------------------------
(* process_keyboard_input on its own: any key on any prior buffer content *)

\* characters of keys and buffers: k h r (consonants; "kh" is a consonant
\* rule), i a (vowels; "aa" "ii" and "rri" are vowel rules), q (no rule)
EngineChars == {107, 104, 114, 105, 97, 113}

\* longest prior buffer content drawn
MaxPrior == 3

PriorBuffers ==
    UNION { [1..n -> EngineChars] : n \in 0..MaxPrior }

EngineInit ==
    /\ SETTINGS = [enabled |-> TRUE, current_language |-> "Bangla",
                   hotkey_enabled |-> TRUE, intercept_all |-> TRUE]
    /\ CTRL_PRESSED = FALSE
    /\ BUFFER \in PriorBuffers
    /\ pc = "idle"
    /\ overflow_checks \in BOOLEAN
    /\ panicked = FALSE
    /\ ev = NoEvent
    /\ ret = "none"
    /\ sent = <<>>
    /\ actor = "init"
    /\ ctrlHeld = FALSE
    /\ typed = 0
    /\ streak = 0
    /\ before = <<>>
    /\ locks = {}
    /\ returned = NotCalled
    /\ LockVarsInit

\* process_keyboard_input(key, &mut buffer)
EngineCall(key) ==
    /\ ~panicked
    /\ \E r \in {process_keyboard_input(Pushed(key, BUFFER), overflow_checks)} :
           /\ BUFFER' = r.buffer
           /\ panicked' = (r.kind = "Panic")
           /\ returned' = [kind |-> r.kind, output |-> r.output,
                           backspaces |-> r.backspaces]
    /\ before' = Pushed(key, BUFFER)
    /\ actor' = "engine"
    /\ UNCHANGED <<SETTINGS, CTRL_PRESSED, pc, overflow_checks, ev, ret, sent,
                   ctrlHeld, typed, streak, locks>>
    /\ UNCHANGED lockvars

EngineNext == \E c \in EngineChars : EngineCall(<< c >>)

EngineSpec == EngineInit /\ [][EngineNext]_vars

----------------------------------------------------------------------------
(* The lock discipline: the callback and update() as two contexts that take   *)
(* and release the SETTINGS and BUFFER mutexes one operation at a time.  The  *)
(* schedule is taken at its most liberal: update() may run whenever it can    *)
(* get SETTINGS.  The schedules of the program, where the callback runs on    *)
(* the thread of update(), are among these.                                   *)

\* injected events followed while one callback synthesizes
MaxReentries == 2

Lock(m) == [op |-> "lock", m |-> m]
Unlock(m) == [op |-> "unlock", m |-> m]
Synthesize == [op |-> "synth", m |-> "none"]
Panic == [op |-> "panic", m |-> "none"]
Return == [op |-> "return", m |-> "none"]

\* The return points of keyboard_hook_proc, as named by Outcome
Paths == {"code", "injected", "up", "other", "backspace", "down", "hotkey",
          "direct", "match", "miss", "overflow", "panic"}

\* mutant: the injected-event path is not one of the early returns
EarlyReturnsButInjected == {"code", "up", "other"}

\* the paths that return before any lock(): code < 0 (line 463), the injected
\* flag (line 468), the key-up arm and the `_` arm
EarlyReturns == {"code", "injected", "up", "other"}

\* The lock(), drop() and end-of-scope operations of keyboard_hook_proc on each
\* path, with its synthesis calls, in program order.  `settings` (line 504)
\* lives to the end of the key-down arm or to a return inside it; `buffer`
\* (line 535) lives to the end of `if let Some(key)`, to drop(buffer) (line
\* 555) or to the return of line 543; guards die in reverse order of
\* declaration.
LockPlan(path) ==
    CASE path \in EarlyReturns -> <<>>
      [] path = "backspace" -> << Lock("BUFFER"), Unlock("BUFFER") >>
      [] path = "hotkey" ->
            << Lock("SETTINGS"), Unlock("SETTINGS"),
               Lock("SETTINGS"), Unlock("SETTINGS") >>
      [] path = "direct" ->
            << Lock("SETTINGS"), Lock("BUFFER"), Synthesize,
               Unlock("BUFFER"), Unlock("SETTINGS") >>
      [] path = "match" ->
            << Lock("SETTINGS"), Lock("BUFFER"), Unlock("BUFFER"), Synthesize,
               Unlock("SETTINGS") >>
      [] path \in {"miss", "overflow"} ->
            << Lock("SETTINGS"), Lock("BUFFER"), Unlock("BUFFER"),
               Unlock("SETTINGS") >>
      [] path = "panic" -> << Lock("SETTINGS"), Lock("BUFFER"), Panic >>
      [] OTHER -> << Lock("SETTINGS"), Unlock("SETTINGS") >>   \* "down"

\* the variables the lock discipline leaves alone
datavars == <<SETTINGS, CTRL_PRESSED, BUFFER, pc, overflow_checks, ev, ret, sent,
              actor, ctrlHeld, typed, streak, before, locks, returned>>

\* The OS delivers an event and the callback starts on the path its event and
\* the state select; the path through line 703's panic needs the build with
\* overflow checks.  A path with no lock operation returns at once.
HookBegin(path) ==
    /\ ~panicked
    /\ plan = <<>>
    /\ path = "panic" => overflow_checks
    /\ plan' = LockPlan(path)
    /\ hpath' = path
    /\ reentries' = 0
    /\ UNCHANGED <<owner, upc, panicked>>
    /\ UNCHANGED datavars

\* The callback performs its next operation.  lock() waits until the mutex is
\* free (std::sync::Mutex is not reentrant).
HookAdvance ==
    /\ ~panicked
    /\ plan # <<>>
    /\ \E o \in {Head(plan)} :
          /\ o.op = "lock" => owner[o.m] = "none"
          /\ owner' = CASE o.op = "lock" -> [owner EXCEPT ![o.m] = "hook"]
                         [] o.op = "unlock" -> [owner EXCEPT ![o.m] = "none"]
                         [] OTHER -> owner
          /\ panicked' = (o.op = "panic")
    /\ plan' = Tail(plan)
    /\ UNCHANGED <<hpath, upc, reentries>>
    /\ UNCHANGED datavars

\* SendInput delivers the synthetic event to the hook while the callback that
\* sent it is still running: a nested invocation on the injected path.
Reenter ==
    /\ ~panicked
    /\ plan # <<>>
    /\ Head(plan).op = "synth"
    /\ reentries < MaxReentries
    /\ plan' = LockPlan("injected") \o << Return >> \o plan
    /\ reentries' = reentries + 1
    /\ UNCHANGED <<owner, hpath, upc, panicked>>
    /\ UNCHANGED datavars

\* update() reaches one of its SETTINGS.lock() calls (lines 213, 240, 270)
UiRequest ==
    /\ ~panicked
    /\ upc = "idle"
    /\ upc' = "want"
    /\ UNCHANGED <<owner, plan, hpath, reentries, panicked>>
    /\ UNCHANGED datavars

UiAcquire ==
    /\ ~panicked
    /\ upc = "want"
    /\ owner["SETTINGS"] = "none"
    /\ owner' = [owner EXCEPT !["SETTINGS"] = "ui"]
    /\ upc' = "held"
    /\ UNCHANGED <<plan, hpath, reentries, panicked>>
    /\ UNCHANGED datavars

\* the guard goes out of scope at the end of its closure
UiRelease ==
    /\ ~panicked
    /\ upc = "held"
    /\ owner' = [owner EXCEPT !["SETTINGS"] = "none"]
    /\ upc' = "idle"
    /\ UNCHANGED <<plan, hpath, reentries, panicked>>
    /\ UNCHANGED datavars

LockNext ==
    \/ \E path \in Paths : HookBegin(path)
    \/ HookAdvance
    \/ Reenter
    \/ UiRequest
    \/ UiAcquire
    \/ UiRelease

LockSpec == Init /\ [][LockNext]_vars

----------------------------------------------------------------------------
(* Reading a step and its outputs *)

\* a step of vars that is one delivery of an event to the hook
HookStep == pc = "idle" /\ actor' = "hook"

\* the step in which the hotkey path re-acquires SETTINGS and returns
ToggleStep == pc = "toggle" /\ actor' = "hook"

KeyDownOf(e, vk) == Genuine(e) /\ e.msg \in DownMsgs /\ e.vk = vk

\* target mode: enabled, active language Bangla, intercept_all
TargetMode(settings) ==
    /\ settings.enabled
    /\ settings.current_language = "Bangla"
    /\ settings.intercept_all

\* the character a letter or digit key types: the lowercase letter, the digit
CharOfKey(vk) == IF vk >= 65 /\ vk <= 90 THEN vk + 32 ELSE vk

IsLetterOrDigit(vk) == (vk >= 65 /\ vk <= 90) \/ (vk >= 48 /\ vk <= 57)

IsBackspacePress(i) == i.wVk = VK_BACK /\ "KEYEVENTF_KEYUP" \notin i.dwFlags

IsUnicodePress(i) ==
    "KEYEVENTF_UNICODE" \in i.dwFlags /\ "KEYEVENTF_KEYUP" \notin i.dwFlags

\* the number of synthetic backspaces among the inputs s
Erases(s) == Len(SelectSeq(s, IsBackspacePress))

\* the codepoints injected by the inputs s, in order
Inserted(s) ==
    LET u == SelectSeq(s, IsUnicodePress) IN [i \in 1..Len(u) |-> u[i].wScan]

----------------------------------------------------------------------------
(* C1: an event with injected = true is propagated, leaves InputBuffer, the  *)
(* Ctrl state and the configuration (the active language with it) unchanged, *)
(* issues no synthetic event and does not start the hotkey, whatever the key,*)
(* the transition and the configuration.                                     *)

C1_InjectedPassesThrough ==
    [][ (HookStep /\ ev'.injected) =>
            /\ ret' = "propagate"
            /\ sent' = <<>>
            /\ pc' = "idle"
            /\ BUFFER' = BUFFER
            /\ CTRL_PRESSED' = CTRL_PRESSED
            /\ SETTINGS' = SETTINGS ]_vars

\* an injected Space arrives while Ctrl is held, the hotkey is on and the
\* buffer holds a pending character: it is propagated
C1_Witness ==
    /\ actor = "hook"
    /\ ev.injected
    /\ ev.vk = VK_SPACE
    /\ ev.msg \in DownMsgs
    /\ ret = "propagate"
    /\ CTRL_PRESSED
    /\ SETTINGS.enabled
    /\ SETTINGS.hotkey_enabled
    /\ BUFFER # <<>>

----------------------------------------------------------------------------
(* C2: with Ctrl held (a genuine Ctrl key-down and no genuine Ctrl key-up    *)
(* since), a genuine Space key-down flips the active language exactly once   *)
(* and is swallowed; a genuine Space key-down while Ctrl is not held never   *)
(* changes the active language.                                              *)

Flipped(old, new) ==
    \/ old = "Bangla" /\ new = "English"
    \/ old = "English" /\ new = "Bangla"

\* the invocation that recognised the hotkey ends by flipping the language,
\* once, and swallowing the event
C2_ToggleFlipsOnce ==
    ToggleStep =>
        /\ Flipped(SETTINGS.current_language, SETTINGS'.current_language)
        /\ SETTINGS'.enabled = SETTINGS.enabled
        /\ SETTINGS'.hotkey_enabled = SETTINGS.hotkey_enabled
        /\ ret' = "swallow"
        /\ sent' = <<>>
        /\ pc' = "idle"
        /\ KeyDownOf(ev', VK_SPACE)

\* Space without Ctrl held: no language change, in any configuration
C2_SpaceAloneNeverToggles ==
    (HookStep /\ KeyDownOf(ev', VK_SPACE) /\ ~ctrlHeld) =>
        pc' = "idle" /\ SETTINGS' = SETTINGS

\* the claim as stated: hotkey_enabled alone decides
C2_AsStated ==
    [][ /\ (HookStep /\ KeyDownOf(ev', VK_SPACE) /\ ctrlHeld
               /\ SETTINGS.hotkey_enabled)
            => (pc' = "toggle" /\ SETTINGS' = SETTINGS)
        /\ C2_ToggleFlipsOnce
        /\ C2_SpaceAloneNeverToggles ]_vars

\* C2 as amended: the hotkey also needs enabled = true
C2_HotkeyTogglesOnce ==
    [][ /\ (HookStep /\ KeyDownOf(ev', VK_SPACE) /\ ctrlHeld
               /\ SETTINGS.hotkey_enabled /\ SETTINGS.enabled)
            => (pc' = "toggle" /\ SETTINGS' = SETTINGS)
        /\ (HookStep /\ KeyDownOf(ev', VK_SPACE) /\ ctrlHeld
               /\ ~(SETTINGS.hotkey_enabled /\ SETTINGS.enabled))
            => (pc' = "idle" /\ SETTINGS' = SETTINGS)
        /\ C2_ToggleFlipsOnce
        /\ C2_SpaceAloneNeverToggles ]_vars

\* Ctrl+Space has just switched Bangla to English
C2_Witness ==
    /\ actor = "hook"
    /\ pc = "idle"
    /\ KeyDownOf(ev, VK_SPACE)
    /\ ctrlHeld
    /\ ret = "swallow"
    /\ SETTINGS.current_language = "English"
    /\ SETTINGS.enabled

----------------------------------------------------------------------------
(* Keys, rules and displayed text, for the claims about the engine *)

RuleOfKey(vk) == PHONETIC_MAP(<< CharOfKey(vk) >>)

IsVowelKey(vk) == IsLetterOrDigit(vk) /\ RuleOfKey(vk).cat = "Vowel"

IsConsonantKey(vk) == IsLetterOrDigit(vk) /\ RuleOfKey(vk).cat = "Consonant"

\* every synthetic backspace of s comes before every injected codepoint
ErasesFirst(s) ==
    \A i, j \in 1..Len(s) : (IsUnicodePress(s[i]) /\ IsBackspacePress(s[j])) => j < i

\* text without its last n characters
Drop(text, n) == SubSeq(text, 1, IF Len(text) > n THEN Len(text) - n ELSE 0)

\* the focused application's text after an invocation that returned r and sent
\* s for the typed character ch: a propagated character is appended, a
\* synthetic backspace removes the last character, a codepoint is appended
TextAfter(text, r, s, ch) ==
    IF r = "propagate" THEN text \o <<ch>>
    ELSE Drop(text, Erases(s)) \o Inserted(s)

\* the step delivers a genuine key-down of a letter or digit in target mode
EngineKeystroke ==
    /\ HookStep
    /\ Genuine(ev')
    /\ ev'.msg \in DownMsgs
    /\ IsLetterOrDigit(ev'.vk)
    /\ TargetMode(SETTINGS)

\* the latest step was a genuine key-down of vk, in target mode, that found
\* InputBuffer empty and has returned
JustPressedOnEmpty(vk) ==
    /\ actor = "hook"
    /\ pc = "idle"
    /\ KeyDownOf(ev, vk)
    /\ before = <<>>
    /\ TargetMode(SETTINGS)
    /\ ret \in {"swallow", "propagate"}

----------------------------------------------------------------------------
(* C3: in target mode, a key the rule table maps to a Vowel glyph g, pressed *)
(* on an empty InputBuffer, erases one character and then injects g.         *)

VowelOnEmpty == EngineKeystroke /\ IsVowelKey(ev'.vk) /\ BUFFER = <<>>

----------------------------------------------------------------------------
(* C4: in target mode, from an empty InputBuffer, a Consonant key and then   *)
(* "a": the second keystroke produces {insert_text = "", erase_count = 2}.   *)

C4_AsStated ==
    [][ \A k \in LetterVks :
          (IsConsonantKey(k) /\ JustPressedOnEmpty(k) /\ HookStep /\ KeyDownOf(ev', 65))
          => (ret' = "swallow" /\ Inserted(sent') = <<>> /\ Erases(sent') = 2) ]_vars

----------------------------------------------------------------------------
(* C5: in target mode, from an empty InputBuffer, a key of Consonant c and   *)
(* then "i": after the second keystroke's replacement the text is c followed *)
(* by the dependent i-sign U+09BF.                                           *)

C5_AsStated ==
    [][ \A k \in LetterVks :
          (IsConsonantKey(k) /\ JustPressedOnEmpty(k) /\ HookStep /\ KeyDownOf(ev', 73))
          => TextAfter(RuleOfKey(k).glyph, ret', sent', 105)
                = RuleOfKey(k).glyph \o <<2495>> ]_vars

----------------------------------------------------------------------------
(* C6: longest match over keystrokes: in target mode, from an empty          *)
(* InputBuffer, two keys whose characters form a two-character rule key      *)
(* ("o" then "u") leave that rule's glyph in place of both characters.       *)

\* the text an empty field shows after the latest invocation
TextOfLatest == TextAfter(<<>>, ret, sent, CharOfKey(ev.vk))

C6_AsStated ==
    [][ \A k1, k2 \in LetterVks :
          (/\ HasRule(<< CharOfKey(k1), CharOfKey(k2) >>)
           /\ JustPressedOnEmpty(k1)
           /\ HookStep
           /\ KeyDownOf(ev', k2))
          => TextAfter(TextOfLatest, ret', sent', CharOfKey(k2))
                = PHONETIC_MAP(<< CharOfKey(k1), CharOfKey(k2) >>).glyph ]_vars

----------------------------------------------------------------------------
(* C7: in target mode, from an empty InputBuffer, 6 consecutive characters   *)
(* that match no rule: each of the 6 events is propagated with no            *)
(* replacement, InputBuffer is empty after the 6th, and the 7th is processed *)
(* against a buffer holding only itself.                                     *)

\* the latest step was a keystroke of the run counted by streak
AfterKeystroke ==
    /\ actor = "hook"
    /\ Genuine(ev)
    /\ ev.msg \in DownMsgs
    /\ IsLetterOrDigit(ev.vk)

Trailing(s, len) == SubSeq(s, Len(s) - len + 1, Len(s))

\* the candidate lengths at which string s resolves: a trailing substring that
\* is a rule key, or one of the vowels a i e u o right after a consonant
MatchLens(s) ==
    { L \in 1..Min(Len(s), 3) :
        \/ HasRule(Trailing(s, L))
        \/ /\ L = 1
           /\ Len(s) >= 2
           /\ IsConsonantChar(s[Len(s) - 1])
           /\ Trailing(s, 1) \in {<<97>>, <<105>>, <<101>>, <<117>>, <<111>>} }

\* s holds lowercase letters only
LettersOnly(s) == \A i \in 1..Len(s) : s[i] >= 97 /\ s[i] <= 122

C7_AsStated ==
    (/\ AfterKeystroke
     /\ ev.vk >= 65 /\ ev.vk <= 90
     /\ LettersOnly(before)
     /\ MatchLens(before \o << CharOfKey(ev.vk) >>) = {}
     /\ streak >= 1 /\ streak <= 7) =>
        /\ ret = "propagate"
        /\ sent = <<>>
        /\ streak <= 5 => Len(BUFFER) = streak
        /\ streak = 6 => BUFFER = <<>>
        /\ streak = 7 => (before = <<>> /\ Len(BUFFER) = 1)

----------------------------------------------------------------------------
(* C8: a keystroke resolved against a rule candidate of length L issues L    *)
(* synthetic backspaces.                                                     *)

Longest(S) == CHOOSE L \in S : \A M \in S : M <= L

\* the keystroke of this step is resolved: a replacement is produced for it
Resolved == EngineKeystroke /\ ret' = "swallow"

\* the characters of InputBuffer and the one the key of this step adds
WithKey == BUFFER \o KeyOf(ev'.vk)

----------------------------------------------------------------------------
(* C9: after every completed hook invocation InputBuffer holds at most 5     *)
(* characters.                                                               *)

C9_BufferAtMostFive == pc = "idle" => Len(BUFFER) <= 5

\* a sixth pending character has just cleared a buffer of five
C9_Witness ==
    /\ AfterKeystroke
    /\ Len(before) = 5
    /\ BUFFER = <<>>
    /\ ret = "propagate"

----------------------------------------------------------------------------
(* C10: every replacement erases at most as many characters as were typed    *)
(* since InputBuffer was last cleared, the triggering keystroke included.    *)

C10_EraseWithinTyped ==
    [][ (HookStep /\ ret' = "swallow") => Erases(sent') <= typed + 1 ]_vars

\* the tight case: a consonant typed on an empty buffer has erased one
\* character, the one character typed
C10_Witness ==
    /\ AfterKeystroke
    /\ IsConsonantKey(ev.vk)
    /\ before = <<>>
    /\ ret = "swallow"
    /\ Erases(sent) = 1
    /\ typed = 0

----------------------------------------------------------------------------
(* C11: whenever the hook calls simulate_backspace or simulate_unicode_input, *)
(* or sleeps between synthetic events, it holds neither the SETTINGS lock nor *)
(* the BUFFER lock, on every path, the empty-buffer vowel path included.      *)

\* the latest invocation called the synthesizer
Synthesized == actor = "hook" /\ sent # <<>>

C11_AsStated == Synthesized => locks = {}

----------------------------------------------------------------------------
(* C12: the engine is engaged only for a genuine key-down of a letter or      *)
(* digit key while current_language = "Bangla" and intercept_all holds; every *)
(* other genuine event except a Backspace key-down is not swallowed by the    *)
(* engine, leaves InputBuffer unchanged and triggers no synthesis.            *)

\* event e may engage the engine under settings
PlainKeyInBangla(e, settings) ==
    /\ Genuine(e)
    /\ e.msg \in DownMsgs
    /\ IsLetterOrDigit(e.vk)
    /\ settings.current_language = "Bangla"
    /\ settings.intercept_all

\* a swallow at the hook step itself is the engine's; the hotkey hands over to
\* the toggle with ret = "pending"
C12_EngineOnlyForPlainKeys ==
    [][ (/\ HookStep
         /\ Genuine(ev')
         /\ ~KeyDownOf(ev', VK_BACK)
         /\ ~PlainKeyInBangla(ev', SETTINGS))
        => (/\ ret' \in {"propagate", "pending"}
            /\ BUFFER' = BUFFER
            /\ sent' = <<>>) ]_vars

\* a letter key pressed in English mode, the keyboard enabled, with characters
\* pending in the buffer: propagated, the buffer as it was
C12_Witness ==
    /\ AfterKeystroke
    /\ ev.vk = 75
    /\ SETTINGS.enabled
    /\ SETTINGS.current_language = "English"
    /\ before # <<>>
    /\ BUFFER = before
    /\ ret = "propagate"
    /\ sent = <<>>

----------------------------------------------------------------------------
(* C13: a genuine Backspace key-down, in any configuration and language,      *)
(* removes exactly the last character of a non-empty InputBuffer, leaves an   *)
(* empty one empty, is propagated, and changes neither current_language nor   *)
(* the Ctrl state.                                                            *)

C13_BackspacePopsOne ==
    [][ (HookStep /\ KeyDownOf(ev', VK_BACK))
        => (/\ BUFFER' = Drop(BUFFER, 1)
            /\ ret' = "propagate"
            /\ sent' = <<>>
            /\ SETTINGS' = SETTINGS
            /\ CTRL_PRESSED' = CTRL_PRESSED) ]_vars

\* Backspace pressed with two characters pending and Ctrl held: one is left
C13_Witness ==
    /\ actor = "hook"
    /\ KeyDownOf(ev, VK_BACK)
    /\ Len(before) = 2
    /\ BUFFER = << before[1] >>
    /\ CTRL_PRESSED
    /\ ret = "propagate"

----------------------------------------------------------------------------
(* C14: in target mode with an empty InputBuffer, a digit key d is presented  *)
(* to the engine as the character d, matches the rule with key d, and         *)
(* produces the Digit glyph of d with one backspace, the buffer cleared.      *)

\* the character "0".."9" printed on digit key vk
DigitChar(vk) == << vk >>

\* checked where the callback returns, so that the arithmetic of the
\* preceding-character position plays no part
C14_AsStated ==
    [][ (/\ EngineKeystroke
         /\ ev'.vk >= 48 /\ ev'.vk <= 57
         /\ BUFFER = <<>>
         /\ ret' # "panic")
        => (/\ ret' = "swallow"
            /\ Erases(sent') = 1
            /\ Inserted(sent') = PHONETIC_MAP(DigitChar(ev'.vk)).glyph
            /\ BUFFER' = <<>>) ]_vars

----------------------------------------------------------------------------
(* C15: for every replacement the hook executes, the synthetic events are     *)
(* first exactly erase_count backspace press/release pairs and then, only if  *)
(* insert_text is not empty, one press/release pair per codepoint of          *)
(* insert_text from left to right; no backspace follows the first codepoint.  *)

\* the replacement the engine produces for the key of this step: the result of
\* process_keyboard_input, or the glyph alone on the empty-buffer vowel path
Instruction ==
    IF IsDirectVowel(KeyOf(ev'.vk), BUFFER)
    THEN [insert_text |-> PHONETIC_MAP(KeyOf(ev'.vk)).glyph, erase_count |-> 0]
    ELSE LET r == process_keyboard_input(WithKey, overflow_checks)
         IN  [insert_text |-> r.output, erase_count |-> r.backspaces]

IsPress(i) == "KEYEVENTF_KEYUP" \notin i.dwFlags
IsUnicode(i) == "KEYEVENTF_UNICODE" \in i.dwFlags /\ i.wVk = 0
IsBackspace(i) == "KEYEVENTF_UNICODE" \notin i.dwFlags /\ i.wVk = VK_BACK

\* s is n backspace pairs followed by one pair per codepoint of text
InOrder(s, n, text) ==
    /\ Len(s) = 2 * n + 2 * Len(text)
    /\ \A i \in 1..(2 * n) : IsBackspace(s[i]) /\ (IsPress(s[i]) <=> i % 2 = 1)
    /\ \A j \in 1..Len(text) :
          /\ IsUnicode(s[2 * n + 2 * j - 1]) /\ IsPress(s[2 * n + 2 * j - 1])
          /\ IsUnicode(s[2 * n + 2 * j]) /\ ~IsPress(s[2 * n + 2 * j])
          /\ s[2 * n + 2 * j - 1].wScan = text[j]
          /\ s[2 * n + 2 * j].wScan = text[j]

----------------------------------------------------------------------------
(* C16: process_keyboard_input, any key on any prior buffer content, the      *)
(* result at most 5 long: when the longest trailing candidate (3 down to 1)   *)
(* that matches a rule is a Consonant, the output is the joiner followed by   *)
(* the glyph if the character before the matched span is a single-character  *)
(* Consonant rule key, and the bare glyph if not; erase_count is the          *)
(* candidate length and the buffer is cleared.                                *)

\* the lengths at which a trailing substring of s is a rule key
RuleLens(s) == { L \in 1..Min(Len(s), 3) : HasRule(Trailing(s, L)) }

\* the rule of the longest trailing candidate of s
LongestRule(s) == PHONETIC_MAP(Trailing(s, Longest(RuleLens(s))))

\* the character of s right before its longest trailing candidate is a
\* single-character Consonant rule key
ConsonantBefore(s) ==
    /\ Len(s) > Longest(RuleLens(s))
    /\ PHONETIC_MAP(<< s[Len(s) - Longest(RuleLens(s))] >>).cat = "Consonant"

\* process_keyboard_input was called and the buffer after the push is `before`
EngineCalled == actor = "engine" /\ Len(before) <= 5

HASANT == 2509

C16_AsStated ==
    (/\ EngineCalled
     /\ RuleLens(before) # {}
     /\ LongestRule(before).cat = "Consonant")
    => (/\ returned.kind = "Some"
        /\ returned.output =
              (IF ConsonantBefore(before) THEN << HASANT >> ELSE <<>>)
              \o LongestRule(before).glyph
        /\ returned.backspaces = Longest(RuleLens(before))
        /\ BUFFER = <<>>)

----------------------------------------------------------------------------
(* C17: process_keyboard_input, any key and prior buffer content: whenever    *)
(* the resolved candidate is a Vowel rule (key length 1 to 3, "rri" included) *)
(* and the character before the matched span is a mapped Consonant, the       *)
(* emitted text is the dependent sign of that vowel (the empty string for the *)
(* inherent vowel "a"), never the independent vowel glyph.                    *)

\* The dependent sign of independent vowel glyph g: nothing for U+0985, and
\* for the others the sign that the Bengali block places 56 codepoints after
\* the letter (U+0986 -> U+09BE, ..., U+098B -> U+09C3, ..., U+0994 -> U+09CC).
KarOf(g) == IF g = <<2437>> THEN <<>> ELSE << g[1] + 56 >>

C17_AsStated ==
    (/\ EngineCalled
     /\ RuleLens(before) # {}
     /\ LongestRule(before).cat = "Vowel"
     /\ ConsonantBefore(before))
    => (/\ returned.kind = "Some"
        /\ returned.output # LongestRule(before).glyph
        /\ returned.output = KarOf(LongestRule(before).glyph))

----------------------------------------------------------------------------
(* C18: a letter or digit keystroke in target mode that matches no candidate  *)
(* and does not overflow: the engine reports no-op, the event is propagated,  *)
(* no synthetic event is issued, and InputBuffer is its previous content with *)
(* the new character appended.                                                *)

C18_AsStated ==
    [][ (/\ EngineKeystroke
         /\ MatchLens(WithKey) = {}
         /\ Len(WithKey) <= 5)
        => (/\ ret' = "propagate"
            /\ sent' = <<>>
            /\ BUFFER' = WithKey) ]_vars

----------------------------------------------------------------------------
(* C19: a genuine key-down of an unrelated key, one that is neither a letter, *)
(* a digit nor Backspace (Space, Enter, an arrow key), clears InputBuffer:     *)
(* after such an event the buffer is empty.                                   *)

UnrelatedKeyDown(e) ==
    /\ Genuine(e)
    /\ e.msg \in DownMsgs
    /\ ~IsLetterOrDigit(e.vk)
    /\ e.vk # VK_BACK

C19_AsStated ==
    [][ (HookStep /\ UnrelatedKeyDown(ev')) => BUFFER' = <<>> ]_vars

----------------------------------------------------------------------------
(* C20: a letter or digit key-down that arrives while Ctrl is held (a         *)
(* shortcut such as Ctrl+C) is propagated unchanged: it is not swallowed,     *)
(* does not mutate InputBuffer and triggers no backspace or Unicode           *)
(* injection.                                                                 *)

C20_AsStated ==
    [][ (/\ HookStep
         /\ Genuine(ev')
         /\ ev'.msg \in DownMsgs
         /\ IsLetterOrDigit(ev'.vk)
         /\ ctrlHeld)
        => (/\ ret' = "propagate"
            /\ BUFFER' = BUFFER
            /\ sent' = <<>>) ]_vars

----------------------------------------------------------------------------
(* C21: with the focused application's text as a sequence (a propagated       *)
(* letter appends it, a swallowed key appends nothing, a synthetic backspace  *)
(* removes the last character, a synthetic codepoint appends it), the         *)
(* backspaces of a replacement remove only Latin characters of the current    *)
(* cluster that were displayed since the last buffer clear, never text that   *)
(* was there before; so n mapped consonant keys typed into an empty field     *)
(* leave n glyphs.                                                            *)

\* The Latin characters of the cluster on display when a keystroke arrives are
\* the characters of InputBuffer: each was propagated when it was pushed, and
\* a Backspace removes one from both.  The key being resolved is swallowed and
\* is never displayed.
DisplayedOfCluster == Len(BUFFER)

\* the field shows one glyph, left by an earlier consonant key
OneGlyph == << 2453 >>

\* a consonant key resolved by this step with nothing of a cluster pending
ConsonantOnEmpty ==
    EngineKeystroke /\ IsConsonantKey(ev'.vk) /\ BUFFER = <<>> /\ ret' # "panic"

C21_AsStated ==
    [][ /\ Resolved => Erases(sent') <= DisplayedOfCluster
        /\ ConsonantOnEmpty
           => TextAfter(OneGlyph, ret', sent', CharOfKey(ev'.vk))
                 = OneGlyph \o RuleOfKey(ev'.vk).glyph ]_vars

----------------------------------------------------------------------------
(* C22: in process_keyboard_input the position of the preceding character,    *)
(* buffer length - 2 in the length-1 special case and buffer length - len - 1 *)
(* in the general case, is never negative when it is computed, for any key    *)
(* and any buffer of length 0 to 5, the first character pushed into an empty  *)
(* buffer included.                                                           *)

\* the iteration for candidate length len is executed on buffer_str: no
\* longer candidate has returned
IterationRuns(buffer_str, len) ==
    /\ len <= Min(Len(buffer_str), 3)
    /\ \A L \in (len + 1)..Min(Len(buffer_str), 3) :
          Candidate(buffer_str, L, FALSE).kind = "Continue"

C22_AsStated ==
    EngineCalled =>
        \A len \in 1..3 :
            IterationRuns(before, len) =>
                /\ len = 1 => SpecialCaseIndex(before) >= 0
                /\ (HasRule(Trailing(before, len)) /\ len < Len(before))
                      => GeneralIndex(before, len) >= 0

----------------------------------------------------------------------------
(* C23: after every completed hook invocation, for any event sequence from an *)
(* empty buffer, InputBuffer holds no character that is itself a              *)
(* single-character rule key: such a character is resolved, and the buffer    *)
(* cleared, on the keystroke that typed it, so no mapped Consonant is ever    *)
(* pending in front of a later keystroke.                                     *)

IsRuleKeyChar(ch) == PHONETIC_MAP(<< ch >>).cat # "None"

C23_NoRuleKeyPending ==
    (pc = "idle" /\ ~panicked) =>
        \A i \in 1..Len(BUFFER) : ~IsRuleKeyChar(BUFFER[i])

\* a consonant key typed behind a pending character that has no rule: the
\* consonant is resolved and the buffer is empty
C23_Witness ==
    /\ AfterKeystroke
    /\ IsConsonantKey(ev.vk)
    /\ Len(before) = 1
    /\ ~IsRuleKeyChar(before[1])
    /\ ret = "swallow"
    /\ BUFFER = <<>>

----------------------------------------------------------------------------
(* C24: with hook invocations strictly sequential and a UI thread that keeps  *)
(* acquiring and releasing the SETTINGS lock, no interleaving reaches a       *)
(* deadlock: the hook acquires SETTINGS before BUFFER on the text path,       *)
(* BUFFER alone on the Backspace path, never a lock it already holds, and the *)
(* injected-event path acquires no lock at all.                               *)

\* the callback is at a lock() it cannot complete
HookWaits ==
    plan # <<>> /\ Head(plan).op = "lock" /\ owner[Head(plan).m] # "none"

\* update() is at a lock() it cannot complete
UiWaits == upc = "want" /\ owner["SETTINGS"] # "none"

\* an invocation nested in the running callback has not returned yet
InNested == \E i \in 1..Len(plan) : plan[i].op = "return"

\* the callback takes BUFFER in this step
HookTakesBuffer == owner["BUFFER"] # "hook" /\ owner'["BUFFER"] = "hook"

\* Whoever waits, waits for the other context, and that one is not waiting;
\* BUFFER is taken under SETTINGS except on the Backspace path, where it is
\* taken alone; a nested (injected) invocation changes no lock.
C24_NoDeadlock ==
    /\ [](HookWaits => (owner[Head(plan).m] = "ui" /\ ~UiWaits))
    /\ [](UiWaits => (owner["SETTINGS"] = "hook" /\ ~HookWaits))
    /\ [][ HookTakesBuffer =>
             (IF hpath = "backspace" THEN owner["SETTINGS"] # "hook"
              ELSE owner["SETTINGS"] = "hook") ]_vars
    /\ [][ (InNested \/ InNested') => owner' = owner ]_vars

\* update() waits for SETTINGS while an injected event is delivered to the
\* callback that holds SETTINGS and BUFFER and is synthesizing
C24_Witness ==
    /\ UiWaits
    /\ InNested
    /\ reentries > 0
    /\ owner["SETTINGS"] = "hook"
    /\ owner["BUFFER"] = "hook"

----------------------------------------------------------------------------
(* C25: under any interleaving with the writes of the settings window, the    *)
(* hook changes the active language only in a state where enabled and         *)
(* hotkey_enabled are both true at the moment of the write: no write of the   *)
(* window falls between the check of the hotkey conditions and the toggle.    *)

\* the hook writes current_language in this step
HookWritesLanguage ==
    actor' = "hook" /\ SETTINGS'.current_language # SETTINGS.current_language

----------------------------------------------------------------------------
(* C26: every hook invocation terminates and returns exactly one of swallow   *)
(* or propagate; a replacement issues at most 3 backspaces and a finite       *)
(* number of codepoints, and synthesis, once begun, runs to completion.       *)

\* an invocation has come to its end
InvocationOver == actor = "hook" /\ pc = "idle"

\* the claim as stated: the invocation has returned swallow or propagate, and
\* what it synthesized holds no more than 3 backspaces, each press with its
\* release
C26_AsStated ==
    InvocationOver =>
        /\ ret \in {"swallow", "propagate"}
        /\ Erases(sent) <= 3
        /\ Len(sent) = 2 * (Erases(sent) + Len(Inserted(sent)))

\* the same without the build with overflow checks
C26_WrappingBuild ==
    (InvocationOver /\ ~overflow_checks) =>
        /\ ret \in {"swallow", "propagate"}
        /\ Erases(sent) <= 3
        /\ Len(sent) = 2 * (Erases(sent) + Len(Inserted(sent)))

====
